---- MODULE Spec2Model ----
(***************************************************************************)
(* Model of the Scantastic pairing modal                                   *)
(* (apps/mobile/src/features/scantastic/ScantasticModal.tsx).              *)
(*                                                                         *)
(* The component keeps its session in React state hooks (OTP,              *)
(* expirationTimestamp, expired, redeemed, error, showIPWarning).  Two     *)
(* one-second timers (the expiry interval and the checkOTPState interval)  *)
(* and the async handlers onEncryptSeedphrase / checkOTPState mutate it.   *)
(* Every await is a point where the handler is suspended: the model keeps  *)
(* the suspended calls as counters of calls in flight and resumes them in  *)
(* separate actions.  A state setter called after the component was        *)
(* unmounted is dropped by React; a handler whose setters changed some     *)
(* state is followed by one render of the component body.                  *)
(* The countdown text (expiryText) is display-only and is left out.        *)
(***************************************************************************)
EXTENDS Integers, FiniteSets, Sequences, TLC

\* ---------------------------------------------------------------- constants
IP_MISMATCH_STATUS_CODE == 401
ONE_SECOND_MS == 1000
ONE_MINUTE_MS == 60000

\* ------------------------------------------------------------------- bounds
MaxClockSteps == 3          \* the clock advances at most this many steps
MaxConfirmsInFlight == 2    \* onEncryptSeedphrase calls suspended at an await
MaxPollsInFlight == 1       \* checkOTPState calls suspended at the fetch
MaxCompletions == 2         \* completion dispatches counted

ClockStep == 2 * ONE_MINUTE_MS
MaxNow == MaxClockSteps * ClockStep

\* ------------------------------------------------------------ input domains
NoOtp == ""
Otps == {"123456", "482913"}
NoError == ""
EncryptionError == "scantastic.error.encryption"
NoCodeError == "scantastic.error.noCode"
EmptyBlob == ""
Cipher == "cipher"
Blobs == {EmptyBlob, Cipher}

\* what the submit-blob fetch can resolve to: a transport failure (fetch or
\* response.json() throws) or an HTTP status with a body whose otp is otp
\* (NoOtp: the body has no otp)
SubmitResponses ==
    {[throws |-> TRUE, status |-> 0, otp |-> NoOtp]}
    \cup {[throws |-> FALSE, status |-> IP_MISMATCH_STATUS_CODE, otp |-> o] : o \in {NoOtp, "123456"}}
    \cup {[throws |-> FALSE, status |-> 500, otp |-> NoOtp]}
    \cup {[throws |-> FALSE, status |-> 200, otp |-> o] : o \in Otps \cup {NoOtp}}

\* OtpState enum; NoOtpState: the body has no otp field
NoOtpState == ""
OtpStates == {"pending", "redeemed", "expired"}
\* expiresAtInSeconds values a poll body can carry; 0: absent (falsy)
ServerExpiries == {0, 120, 600}
\* what the otp-state fetch can resolve to: a transport failure, a non-success
\* status, a body without otp state (each of the last two carrying an expiry),
\* or a body with an otp state and any of the expiries
PollResponses ==
    {[throws |-> TRUE, status |-> 0, otp |-> NoOtpState, expiresAtInSeconds |-> 0]}
    \cup {[throws |-> FALSE, status |-> 500, otp |-> NoOtpState, expiresAtInSeconds |-> 600]}
    \cup {[throws |-> FALSE, status |-> 200, otp |-> NoOtpState, expiresAtInSeconds |-> 600]}
    \cup {[throws |-> FALSE, status |-> 200, otp |-> o, expiresAtInSeconds |-> s] :
             o \in OtpStates, s \in ServerExpiries}

ResponseOk(status) == status >= 200 /\ status <= 299

\* -------------------------------------------------------------------- state
VARIABLES
    now,                  \* Date.now()
    account,              \* useSignerAccounts() holds at least one signer account
    pubKey,               \* params?.publicKey is present
    uuid,                 \* params?.uuid is present
    mounted,              \* the component is mounted (the session is alive)
    OTP,
    expirationTimestamp,
    expired,
    redeemed,
    error,
    showIPWarning,
    encrypting,           \* onEncryptSeedphrase calls awaiting getEncryptedMnemonic
    submitting,           \* per blob: onEncryptSeedphrase calls awaiting the /blob fetch
    polling,              \* checkOTPState calls awaiting the /otp-state fetch
    completions,          \* times the redeemed block of the render dispatched
    lastEvent             \* the handler step taken last, with its input

session == <<OTP, expirationTimestamp, expired, redeemed, error, showIPWarning>>
calls == <<encrypting, submitting, polling>>
vars == <<now, account, pubKey, uuid, mounted, OTP, expirationTimestamp, expired, redeemed,
          error, showIPWarning, encrypting, submitting, polling, completions, lastEvent>>

Event(op) == [op |-> op, status |-> 0, otp |-> "", secs |-> 0, blob |-> ""]

\* --------------------------------------------------------- derived: render
\* the screen the render returns
Screen ==
    IF showIPWarning THEN "IpMismatch"
    ELSE IF expired THEN "Expired"
    ELSE IF OTP # NoOtp THEN "AwaitingRedemption"
    ELSE IF error # NoError THEN "Failed"
    ELSE "AwaitingConfirmation"

\* the session status: the redeemed block runs before any screen is chosen
Status == IF redeemed THEN "Redeemed" ELSE Screen

\* a useState setter: dropped once the component is unmounted
SetState_Unguarded(cur, new) == new
SetState(cur, new) == IF mounted THEN new ELSE cur

\* the component body runs again after a handler changed some state; the
\* redeemed block dispatches the completion on every such run
RenderDispatches(changed, redeemedNow) ==
    IF mounted /\ changed /\ redeemedNow THEN 1 ELSE 0

Rendered ==
    /\ completions + RenderDispatches(session' # session, redeemed') <= MaxCompletions
    /\ completions' = completions + RenderDispatches(session' # session, redeemed')

\* --------------------------------------------------------------------- Init
\* the component body throws before any hook when there is no signer account
initializeThrows_Never == FALSE
initializeThrows == ~account

\* the scan window the session starts with
ScanWindowExpiry(t) == t + 6 * ONE_MINUTE_MS

\* a component whose first render threw never mounts: it has no state, no
\* timers and no handlers (the state variables keep their initial values)
Init ==
    /\ now = 0
    /\ account \in BOOLEAN
    /\ pubKey \in BOOLEAN
    /\ uuid \in BOOLEAN
    /\ mounted = ~initializeThrows
    /\ OTP = NoOtp
    /\ expirationTimestamp = ScanWindowExpiry(now)
    /\ expired = FALSE
    /\ redeemed = FALSE
    /\ error = NoError
    /\ showIPWarning = FALSE
    /\ encrypting = 0
    /\ submitting = [b \in Blobs |-> 0]
    /\ polling = 0
    /\ completions = 0
    /\ lastEvent = Event("init")

\* ------------------------------------------------------------------ actions
\* wall-clock time passes
Advance ==
    /\ now < MaxNow
    /\ now' = now + ClockStep
    /\ lastEvent' = Event("clock")
    /\ UNCHANGED <<account, pubKey, uuid, mounted, session, calls, completions>>

\* the expiry interval callback
timeLeftExpired_Strict(exp, t) == exp - t < 0
timeLeftExpired(exp, t) == exp - t <= 0

\* the expiry interval runs until the effect cleanup clears it on unmount
expiryIntervalActive_NoCleanup == TRUE
expiryIntervalActive == mounted

Tick ==
    /\ expiryIntervalActive
    /\ expired' = SetState(expired, timeLeftExpired(expirationTimestamp, now))
    /\ UNCHANGED <<OTP, expirationTimestamp, redeemed, error, showIPWarning>>
    /\ Rendered
    /\ lastEvent' = Event("tick")
    /\ UNCHANGED <<now, account, pubKey, uuid, mounted, calls>>

\* onEncryptSeedphrase, up to its first await: the early return without a
\* public key, else setError('') and the call to getEncryptedMnemonic
confirmReturnsEarly_Never == FALSE
confirmReturnsEarly == ~pubKey

onEncryptSeedphrase ==
    IF confirmReturnsEarly
    THEN /\ lastEvent' = Event("confirmNoKey")
         /\ UNCHANGED <<session, calls, completions>>
    ELSE /\ encrypting + submitting[EmptyBlob] + submitting[Cipher] < MaxConfirmsInFlight
         /\ error' = SetState(error, NoError)
         /\ encrypting' = encrypting + 1
         /\ UNCHANGED <<OTP, expirationTimestamp, expired, redeemed, showIPWarning,
                        submitting, polling>>
         /\ Rendered
         /\ lastEvent' = Event("confirm")

\* the continue button of the confirmation screen: with biometric auth
\* required the handler runs only when the prompt succeeds
onConfirmSync ==
    /\ mounted
    /\ Screen = "AwaitingConfirmation"
    /\ \E requiresBiometricAuth \in BOOLEAN, biometricOk \in BOOLEAN :
          IF requiresBiometricAuth /\ ~biometricOk
          THEN /\ lastEvent' = Event("biometricDenied")
               /\ UNCHANGED <<session, calls, completions>>
          ELSE onEncryptSeedphrase
    /\ UNCHANGED <<now, account, pubKey, uuid, mounted>>

\* onEncryptSeedphrase resumes after getEncryptedMnemonic: the catch records
\* the encryption error and falls through to the second try, which issues the
\* /blob fetch with whatever encryptedSeedphrase holds
EncryptResolve(ok) ==
    /\ encrypting > 0
    /\ encrypting' = encrypting - 1
    /\ LET blob == IF ok THEN Cipher ELSE EmptyBlob IN
         /\ submitting' = [submitting EXCEPT ![blob] = @ + 1]
         /\ lastEvent' = [Event(IF ok THEN "encrypted" ELSE "encryptFailed") EXCEPT !.blob = blob]
    /\ error' = IF ok THEN error ELSE SetState(error, EncryptionError)
    /\ UNCHANGED <<OTP, expirationTimestamp, expired, redeemed, showIPWarning, polling>>
    /\ Rendered
    /\ UNCHANGED <<now, account, pubKey, uuid, mounted>>

\* how the second try of onEncryptSeedphrase reads the /blob response
SubmitOutcome_OkFirst(r) ==
    IF r.throws THEN "error"
    ELSE IF ~ResponseOk(r.status) THEN "error"
    ELSE IF r.status = IP_MISMATCH_STATUS_CODE THEN "ipMismatch"
    ELSE IF r.otp = NoOtp THEN "error"
    ELSE "otp"
SubmitOutcome_NoOtpCheck(r) ==
    IF r.throws THEN "error"
    ELSE IF r.status = IP_MISMATCH_STATUS_CODE THEN "ipMismatch"
    ELSE IF ~ResponseOk(r.status) THEN "error"
    ELSE "otp"
SubmitOutcome(r) ==
    IF r.throws THEN "error"
    ELSE IF r.status = IP_MISMATCH_STATUS_CODE THEN "ipMismatch"
    ELSE IF ~ResponseOk(r.status) THEN "error"
    ELSE IF r.otp = NoOtp THEN "error"
    ELSE "otp"

\* the OTP validity window set when the otp is issued
OtpExpiry_ScanWindow(t) == t + 6 * ONE_MINUTE_MS
OtpExpiry(t) == t + ONE_MINUTE_MS * 2

\* onEncryptSeedphrase resumes after the /blob fetch
SubmitResponse(blob, r) ==
    /\ submitting[blob] > 0
    /\ submitting' = [submitting EXCEPT ![blob] = @ - 1]
    /\ LET outcome == SubmitOutcome(r) IN
         /\ showIPWarning' = IF outcome = "ipMismatch" THEN SetState(showIPWarning, TRUE)
                             ELSE showIPWarning
         /\ expirationTimestamp' = IF outcome = "otp"
                                   THEN SetState(expirationTimestamp, OtpExpiry(now))
                                   ELSE expirationTimestamp
         /\ OTP' = IF outcome = "otp" THEN SetState(OTP, r.otp) ELSE OTP
         /\ error' = IF outcome = "error" THEN SetState(error, NoCodeError) ELSE error
    /\ UNCHANGED <<expired, redeemed, encrypting, polling>>
    /\ Rendered
    /\ lastEvent' = [op |-> IF r.throws THEN "submitThrew" ELSE "submitResponse",
                     status |-> r.status, otp |-> r.otp, secs |-> 0, blob |-> ""]
    /\ UNCHANGED <<now, account, pubKey, uuid, mounted>>

\* the guard at the top of checkOTPState
pollSkips_Both == OTP = NoOtp /\ ~uuid
pollSkips == OTP = NoOtp \/ ~uuid

\* the checkOTPState interval fires: the guard, then the /otp-state fetch
\* useInterval(checkOTPState, ONE_SECOND_MS, true): the hook of
\* utilities/src/time/timing clears its interval when the component unmounts
pollIntervalActive == mounted

checkOTPState ==
    /\ pollIntervalActive
    /\ IF pollSkips
       THEN polling' = polling
       ELSE /\ polling < MaxPollsInFlight
            /\ polling' = polling + 1
    /\ lastEvent' = Event("checkOTPState")
    /\ UNCHANGED <<now, account, pubKey, uuid, mounted, session, encrypting, submitting, completions>>

\* the poll response is applied only when the fetch succeeded with an ok
\* status and the body carries an otp state
PollApplies_NoOtpStateCheck(r) == ~r.throws /\ ResponseOk(r.status)
PollApplies(r) == ~r.throws /\ ResponseOk(r.status) /\ r.otp # NoOtpState

\* the server-reported expiry, converted to milliseconds
PollExpiry_NoConversion(secs) == secs
PollExpiry(secs) == secs * ONE_SECOND_MS

\* checkOTPState resumes after the /otp-state fetch
PollResponse(r) ==
    /\ polling > 0
    /\ polling' = polling - 1
    /\ expirationTimestamp' =
          IF PollApplies(r) /\ r.expiresAtInSeconds # 0
          THEN SetState(expirationTimestamp, PollExpiry(r.expiresAtInSeconds))
          ELSE expirationTimestamp
    /\ redeemed' = IF PollApplies(r) /\ r.otp = "redeemed" THEN SetState(redeemed, TRUE)
                   ELSE redeemed
    /\ expired' = IF PollApplies(r) /\ r.otp = "expired" THEN SetState(expired, TRUE)
                  ELSE expired
    /\ UNCHANGED <<OTP, error, showIPWarning, encrypting, submitting>>
    /\ Rendered
    /\ lastEvent' = [op |-> IF r.throws THEN "pollThrew" ELSE "pollResponse",
                     status |-> r.status, otp |-> r.otp, secs |-> r.expiresAtInSeconds,
                     blob |-> ""]
    /\ UNCHANGED <<now, account, pubKey, uuid, mounted>>

\* the modal is closed (onClose, or the host reacting to closeAllModals): the
\* component unmounts and the effect cleanup clears the interval
Unmount ==
    /\ mounted
    /\ mounted' = FALSE
    /\ lastEvent' = Event("unmount")
    /\ UNCHANGED <<now, account, pubKey, uuid, session, calls, completions>>

Next ==
    \/ Advance
    \/ Tick
    \/ onConfirmSync
    \/ EncryptResolve(TRUE)
    \/ EncryptResolve(FALSE)
    \/ \E blob \in Blobs, r \in SubmitResponses : SubmitResponse(blob, r)
    \/ checkOTPState
    \/ \E r \in PollResponses : PollResponse(r)
    \/ Unmount

Spec == Init /\ [][Next]_vars

TypeOK ==
    /\ now \in 0..MaxNow
    /\ account \in BOOLEAN
    /\ pubKey \in BOOLEAN /\ uuid \in BOOLEAN /\ mounted \in BOOLEAN
    /\ OTP \in Otps \cup {NoOtp}
    /\ expirationTimestamp \in Nat
    /\ expired \in BOOLEAN /\ redeemed \in BOOLEAN /\ showIPWarning \in BOOLEAN
    /\ error \in {NoError, EncryptionError, NoCodeError}
    /\ encrypting \in 0..MaxConfirmsInFlight
    /\ polling \in 0..MaxPollsInFlight
    /\ completions \in 0..MaxCompletions

\* ------------------------------------------------------------------ claims
TerminalStatuses == {"Redeemed", "Expired", "IpMismatch"}

\* the step just taken resumed onEncryptSeedphrase with an HTTP response
SubmitResponded == lastEvent'.op = "submitResponse"

\* C1: once the status is Redeemed, Expired or IpMismatch, no further step
\* changes it (in particular an Expired session is never un-expired).
C1_TerminalStatusNeverChanges ==
    [][(Status \in TerminalStatuses) => (Status' = Status)]_vars

\* C2: when the encryption fails during confirm, the encryption error is
\* recorded and confirm stops: no submit-blob request carries the blob of a
\* failed encryption.
C2_EncryptionFailureStops ==
    /\ (mounted /\ lastEvent.op = "encryptFailed" => error = EncryptionError)
    /\ submitting[EmptyBlob] = 0

\* C3: after the session is disposed, a resolving encryption, submit-blob or
\* poll-status call changes none of the session state and fires no
\* completion signal.
C3_ResponseAfterDisposalIgnored ==
    [][~mounted => UNCHANGED <<session, completions>>]_vars

C3_Witness ==
    /\ ~mounted
    /\ lastEvent.op = "pollResponse" /\ lastEvent.status = 200
    /\ lastEvent.otp = "redeemed"
    /\ ~redeemed /\ completions = 0

\* C4: once a poll reported 'redeemed', the completion signal has fired
\* exactly once, whatever polls, ticks or renders follow.
C4_CompletionFiresExactlyOnce ==
    /\ redeemed => completions = 1
    /\ completions <= 1

\* C5 (as stated): a success response with an otp stores that otp, sets
\* expiresAt to the response time + 2 minutes and makes the status
\* AwaitingRedemption.  Stated for the sessions with no otp, no error and
\* no IP warning, so that a violation rests neither on a second, concurrent
\* confirm nor on a failed encryption.
C5_SubmitOtpAlwaysAwaitingRedemption ==
    [][(mounted /\ ~showIPWarning /\ OTP = NoOtp /\ error = NoError
        /\ SubmitResponded /\ ResponseOk(lastEvent'.status) /\ lastEvent'.otp # NoOtp)
        => /\ OTP' = lastEvent'.otp
           /\ expirationTimestamp' = now + 2 * ONE_MINUTE_MS
           /\ Screen' = "AwaitingRedemption"]_vars

\* C5 (amended): a success response with an otp stores that otp and sets
\* expiresAt to the response time + 2 minutes; the status becomes
\* AwaitingRedemption unless the IP warning or the expired flag was already
\* set, which keep their screen.
C5_SubmitOtpStored ==
    [][(mounted /\ SubmitResponded /\ ResponseOk(lastEvent'.status) /\ lastEvent'.otp # NoOtp)
        => /\ OTP' = lastEvent'.otp
           /\ expirationTimestamp' = now + 2 * ONE_MINUTE_MS
           /\ (~showIPWarning /\ ~expired => Screen' = "AwaitingRedemption")
           /\ (showIPWarning => Screen' = "IpMismatch")
           /\ (~showIPWarning /\ expired => Screen' = "Expired")]_vars

C5_Witness ==
    /\ mounted
    /\ lastEvent.op = "submitResponse" /\ lastEvent.status = 200
    /\ OTP = "123456" /\ lastEvent.otp = OTP
    /\ now > 0 /\ expirationTimestamp = now + 2 * ONE_MINUTE_MS
    /\ Screen = "AwaitingRedemption"

\* C6: a 401 response makes the status IpMismatch whatever its body holds:
\* no otp is stored, expiresAt is unchanged and no error is recorded.
C6_Unauthorized ==
    [][(mounted /\ SubmitResponded /\ lastEvent'.status = IP_MISMATCH_STATUS_CODE)
        => /\ showIPWarning'
           /\ Screen' = "IpMismatch"
           /\ UNCHANGED <<OTP, expirationTimestamp, error, expired, redeemed>>]_vars

C6_Witness ==
    /\ mounted
    /\ lastEvent.op = "submitResponse" /\ lastEvent.status = IP_MISMATCH_STATUS_CODE
    /\ lastEvent.otp = "123456"
    /\ showIPWarning /\ OTP = NoOtp /\ error = NoError

\* the step just taken resumed onEncryptSeedphrase with a non-success status
\* other than 401, or with a success status and a body without otp
SubmitRejected ==
    /\ SubmitResponded
    /\ lastEvent'.status # IP_MISMATCH_STATUS_CODE
    /\ (~ResponseOk(lastEvent'.status) \/ lastEvent'.otp = NoOtp)

NoRetry ==
    /\ encrypting' = encrypting
    /\ submitting[EmptyBlob]' + submitting[Cipher]' = submitting[EmptyBlob] + submitting[Cipher] - 1

\* C7 (as stated): a rejected submit makes the status Failed(SubmissionError),
\* otp stays empty, expiresAt is unchanged and nothing is retried.  Stated
\* for the sessions with no otp, no error and no IP warning, so that a
\* violation rests neither on a second, concurrent confirm nor on a failed
\* encryption.
C7_SubmitRejectedAlwaysFailed ==
    [][(mounted /\ ~showIPWarning /\ OTP = NoOtp /\ error = NoError /\ SubmitRejected)
        => /\ Screen' = "Failed" /\ error' = NoCodeError
           /\ OTP' = NoOtp
           /\ expirationTimestamp' = expirationTimestamp
           /\ NoRetry]_vars

\* C7 (amended): a rejected submit records the submission error, leaves otp
\* and expiresAt unchanged and retries nothing; the status becomes Failed
\* unless an IP warning, an expiry or an issued otp already takes precedence.
C7_SubmitRejectedRecorded ==
    [][(mounted /\ SubmitRejected)
        => /\ error' = NoCodeError
           /\ UNCHANGED <<OTP, expirationTimestamp, expired, redeemed, showIPWarning>>
           /\ NoRetry
           /\ (~showIPWarning /\ ~expired /\ OTP = NoOtp => Screen' = "Failed")]_vars

C7_Witness ==
    /\ mounted
    /\ lastEvent.op = "submitResponse" /\ lastEvent.status = 200 /\ lastEvent.otp = NoOtp
    /\ error = NoCodeError /\ OTP = NoOtp
    /\ Screen = "Failed"

\* C8: confirm without a public key is a no-op: the status stays
\* AwaitingConfirmation, no encryption or submit call starts, and otp,
\* expiresAt and the error are unchanged.
C8_ConfirmWithoutKeyIsNoOp ==
    [][(~pubKey /\ lastEvent'.op \in {"confirm", "confirmNoKey"})
        => /\ Status' = "AwaitingConfirmation"
           /\ UNCHANGED <<session, calls, completions>>]_vars

C8_Witness ==
    /\ ~pubKey
    /\ lastEvent.op = "confirmNoKey"
    /\ Status = "AwaitingConfirmation"
    /\ encrypting = 0 /\ submitting = [b \in Blobs |-> 0]

\* C9: a tick at now >= expiresAt while the status is AwaitingRedemption makes
\* the status Expired, also when no poll ever completed.
C9_TickExpires ==
    [][(lastEvent'.op = "tick" /\ now >= expirationTimestamp /\ Status = "AwaitingRedemption")
        => expired' /\ Status' = "Expired"]_vars

\* without a uuid no poll is ever issued
C9_Witness ==
    /\ lastEvent.op = "tick"
    /\ ~uuid /\ polling = 0
    /\ OTP # NoOtp /\ now = expirationTimestamp
    /\ Status = "Expired"

\* C10: while otp is empty or the uuid is missing, the poll timer issues no
\* poll-status request and changes no session state.
C10_PollNoOpBeforeOtp ==
    [][(lastEvent'.op = "checkOTPState" /\ (OTP = NoOtp \/ ~uuid))
        => /\ polling' = polling
           /\ UNCHANGED <<session, encrypting, submitting, completions>>]_vars

C10_Witness ==
    /\ lastEvent.op = "checkOTPState"
    /\ uuid /\ OTP = NoOtp
    /\ polling = 0
\* the step just taken resumed checkOTPState with a transport failure, a
\* non-success status or a body without the otp state
PollFailed ==
    \/ lastEvent'.op = "pollThrew"
    \/ /\ lastEvent'.op = "pollResponse"
       /\ (~ResponseOk(lastEvent'.status) \/ lastEvent'.otp = NoOtpState)

\* C11: a poll that fails in transport, returns a non-success status or a
\* body without the otp state leaves status, otp and expiresAt unchanged, also
\* when the body carries an expiresAtInSeconds.
C11_FailedPollChangesNothing ==
    [][PollFailed => UNCHANGED <<session, completions>>]_vars

C11_Witness ==
    /\ mounted
    /\ lastEvent.op = "pollResponse" /\ lastEvent.status = 200
    /\ lastEvent.otp = NoOtpState /\ lastEvent.secs = 600
    /\ expirationTimestamp # 600 * ONE_SECOND_MS
    /\ Status = "AwaitingRedemption"

\* C12: after the session is discarded neither the tick nor the poll callback
\* runs again.
C12_TimersCancelledOnDisposal ==
    [][~mounted => lastEvent'.op \notin {"tick", "checkOTPState"}]_vars

\* a disposed session whose expiry has passed and which no tick has expired
C12_Witness ==
    /\ account /\ ~mounted
    /\ lastEvent.op = "clock"
    /\ uuid /\ OTP # NoOtp
    /\ now >= expirationTimestamp /\ ~expired

\* C13: without a signer account the component throws and creates no session
\* state, timers or network calls; with an account the session starts in
\* AwaitingConfirmation with an empty otp and expiresAt = now + 6 minutes.
C13_InitializeFailsFast ==
    /\ ~account =>
          /\ ~mounted
          /\ lastEvent.op \in {"init", "clock"}
          /\ OTP = NoOtp /\ ~expired /\ ~redeemed /\ error = NoError /\ ~showIPWarning
          /\ encrypting = 0 /\ submitting = [b \in Blobs |-> 0] /\ polling = 0
          /\ completions = 0
    /\ (account /\ lastEvent.op = "init") =>
          /\ mounted
          /\ Status = "AwaitingConfirmation"
          /\ OTP = NoOtp
          /\ expirationTimestamp = now + 6 * ONE_MINUTE_MS

C13_Witness ==
    /\ ~account /\ ~mounted
    /\ lastEvent.op = "clock"
    /\ now >= 6 * ONE_MINUTE_MS
\* C15: once a submit-blob failure has put the status in Failed, no later
\* tick or poll changes the status.
C15_FailedIsTerminal ==
    [][(/\ Status = "Failed" /\ error = NoCodeError
        /\ lastEvent'.op \in {"tick", "checkOTPState", "pollResponse", "pollThrew"})
        => Status' = "Failed"]_vars
\* the step just taken resumed onEncryptSeedphrase with a success status and
\* an otp
OtpIssued ==
    SubmitResponded /\ ResponseOk(lastEvent'.status) /\ lastEvent'.otp # NoOtp

\* the step just taken resumed checkOTPState with a success status, an otp
\* state and an expiresAtInSeconds
PollCarriesExpiry ==
    /\ lastEvent'.op = "pollResponse" /\ ResponseOk(lastEvent'.status)
    /\ lastEvent'.otp # NoOtpState /\ lastEvent'.secs # 0

\* expiresAt changes only when an otp is issued (to now + 2 minutes) or a
\* successful poll carries an expiry (to expiresAtInSeconds in milliseconds)
ExpiryChangesOnlyWhenLearned ==
    expirationTimestamp' # expirationTimestamp =>
        \/ OtpIssued /\ expirationTimestamp' = now + 2 * ONE_MINUTE_MS
        \/ PollCarriesExpiry /\ expirationTimestamp' = lastEvent'.secs * ONE_SECOND_MS

\* C16 (as stated): expiresAt changes only at the otp issue and at a successful
\* poll carrying an expiry, and a poll never replaces it by an earlier value.
C16_ExpiryNeverStaler ==
    [][/\ ExpiryChangesOnlyWhenLearned
       /\ (PollCarriesExpiry => expirationTimestamp' >= expirationTimestamp)]_vars

\* C16 (amended): expiresAt changes only at the otp issue and at a successful
\* poll carrying an expiry; such a poll adopts the server value whether it is
\* later or earlier than the current expiresAt.
C16_ExpiryAdoptedFromServer ==
    [][/\ ExpiryChangesOnlyWhenLearned
       /\ (mounted /\ PollCarriesExpiry
             => expirationTimestamp' = lastEvent'.secs * ONE_SECOND_MS)]_vars

\* a poll at 4 minutes or later has adopted a server expiry of 2 minutes
C16_Witness ==
    /\ mounted
    /\ lastEvent.op = "pollResponse" /\ lastEvent.status = 200
    /\ lastEvent.otp = "pending" /\ lastEvent.secs = 120
    /\ now >= 4 * ONE_MINUTE_MS
    /\ expirationTimestamp = 2 * ONE_MINUTE_MS
\* the terminal statuses whose indicator is set
TerminalIndicators ==
    {i \in TerminalStatuses :
        \/ i = "Redeemed" /\ redeemed
        \/ i = "Expired" /\ expired
        \/ i = "IpMismatch" /\ showIPWarning}

\* C17: the indicators never denote two statuses at once.  Stated for the
\* indicators of the terminal statuses (never both redeemed and expired, never
\* both IP warning and expired, never both redeemed and IP warning), which no
\* failed encryption and no second confirm is needed to set.
C17_ExactlyOneStatus ==
    Cardinality(TerminalIndicators) <= 1
\* C18: otp is empty until a submit-blob response carrying an otp is applied,
\* and once non-empty it stays non-empty.
C18_OtpOnceSetStaysSet ==
    [][/\ (OTP # NoOtp => OTP' # NoOtp)
       /\ (OTP = NoOtp /\ OTP' # NoOtp => OtpIssued /\ OTP' = lastEvent'.otp)]_vars

\* a success response without otp arrived after the otp was issued
C18_Witness ==
    /\ mounted
    /\ OTP # NoOtp
    /\ lastEvent.op = "submitResponse" /\ lastEvent.status = 200 /\ lastEvent.otp = NoOtp
\* C19: a confirm takes effect only from AwaitingConfirmation: while one
\* onEncryptSeedphrase call is in flight no second one starts, so at most one
\* encryption or submit-blob call of the session is outstanding.
C19_OneConfirmInFlight ==
    encrypting + submitting[EmptyBlob] + submitting[Cipher] <= 1

\* the clock runs, both intervals keep firing as long as the session lives,
\* and a poll fetch in flight eventually settles (with any outcome)
LiveSpec ==
    /\ Spec
    /\ WF_vars(Advance)
    /\ WF_vars(Tick)
    /\ WF_vars(checkOTPState)
    /\ WF_vars(\E r \in PollResponses : PollResponse(r))

\* the modelled clock stops before the expiry of the session is due
ClockHorizon == now = MaxNow /\ expirationTimestamp > now

\* C20: every live session that reaches AwaitingRedemption eventually reaches
\* Redeemed or Expired (or is disposed, or outlives the modelled clock).
C20_EventuallyRedeemedOrExpired ==
    (mounted /\ Status = "AwaitingRedemption")
        ~> (Status \in {"Redeemed", "Expired"} \/ ~mounted \/ ClockHorizon)
====
